---- MODULE Spec2Model ----
(***************************************************************************)
(* Model of the kakaku.com ranking scraper.                                *)
(*                                                                         *)
(*   scripts/index.py : fetch_html, save_html, save_to_csv,                *)
(*                      get_header_text, extract_rankings, scrape_urls     *)
(*   scripts/app.py   : scrape_api (the /scrape request handler)           *)
(*                                                                         *)
(* Text is a sequence of one-character strings.  A Japanese literal of the *)
(* source is written as one token, named in the comment next to it.        *)
(* Python's None is the record None; every tag, document, file content and *)
(* return value is a record with a "kind" field, so values of different    *)
(* shapes can be compared.                                                 *)
(***************************************************************************)
EXTENDS Integers, Sequences, FiniteSets, TLC

VARIABLES
    pc,        \* pc[i]: where the request for item i stands
    requests,  \* number of requests the handler has received
    soup,      \* soup[i]: local `soup` of scrape_urls
    rankings,  \* rankings[i]: local `rankings` of scrape_urls
    ret,       \* ret[i]: what scrape_urls handed to scrape_api
    response,  \* response[i]: the (body, status) scrape_api answered with
    files,     \* the filesystem: path -> content
    dataDir,   \* whether the directory data/ exists
    before,    \* before[i]: item i's two files when its current request began
    log,       \* log[i]: the I/O events of item i's current request, in order
    xdoc,      \* extraction harness: the document handed to extract_rankings
    xtopn,     \* extraction harness: top_n
    xout,      \* extraction harness: the list extract_rankings returned
    xpc        \* extraction harness: "input" or "done"

vars == <<pc, requests, soup, rankings, ret, response, files, dataDir, before, log,
          xdoc, xtopn, xout, xpc>>

pipeVars == <<pc, requests, soup, rankings, ret, response, files, dataDir, before, log>>
harnessVars == <<xdoc, xtopn, xout, xpc>>

(***************************************************************************)
(* Bounds                                                                  *)
(***************************************************************************)
MaxMarkers == 3     \* markers per document in the extraction harness
MaxTopN == 3        \* top_n ranges over 0..MaxTopN in the extraction harness
MaxRequests == 4    \* requests the handler receives in one behaviour

\* def extract_rankings(soup, top_n=20)
DefaultTopN == 20

Min(a, b) == IF a <= b THEN a ELSE b

(***************************************************************************)
(* Text                                                                    *)
(***************************************************************************)
None == [kind |-> "None"]

RECURSIVE lstrip(_)
lstrip(s) == IF s = <<>> THEN <<>>
             ELSE IF Head(s) = " " THEN lstrip(Tail(s)) ELSE s

RECURSIVE rstrip(_)
rstrip(s) == IF s = <<>> THEN <<>>
             ELSE IF s[Len(s)] = " " THEN rstrip(SubSeq(s, 1, Len(s) - 1)) ELSE s

\* str.strip()
strip(s) == rstrip(lstrip(s))

\* tag.get_text(strip=True) of a tag holding one text node: the node is
\* stripped, and dropped when nothing is left
get_text(tag) == strip(tag.text)

\* a tag with text t (and, for <a>, an optional href)
Tag(t) == [kind |-> "tag", text |-> t]
Anchor(t, has, h) == [kind |-> "tag", text |-> t, has_href |-> has, href |-> h]

Found(tag) == tag.kind # "None"

(***************************************************************************)
(* Documents.  A parsed page is                                            *)
(*   h1      : the first <h1>, or None                                     *)
(*   markers : the <span class="p-PTRank"> elements in document order,     *)
(*             each with its text and the <tr> enclosing it (0: none)      *)
(*   rows    : the <tr> elements; each holds the first element of every    *)
(*             class the extractor looks up in it, or None                 *)
(***************************************************************************)
Doc(h, ms, rs) == [kind |-> "soup", h1 |-> h, markers |-> ms, rows |-> rs]

Row(price, sub, shipping, stock, shop, area) ==
    [price |-> price, price_sub |-> sub, shipping |-> shipping,
     stock |-> stock, shop |-> shop, area |-> area]

\* sentinels of index.py
NoHeader == <<"no_header_info">>      \* 'ヘッダー情報なし'
NoPrice == <<"no_price_info">>        \* '価格情報なし'
NoShipping == <<"no_shipping_info">>  \* '配送情報なし'
NoStock == <<"no_stock_info">>        \* '在庫情報なし'
NoShopName == <<"no_shop_name">>      \* 'ショップ名なし'
NoURL == <<"no_url">>                 \* 'URLなし'
NoArea == <<"no_area_info">>          \* 'エリア情報なし'

\* get_header_text(soup)
get_header_text(d) == IF Found(d.h1) THEN get_text(d.h1) ELSE NoHeader

\* soup.find_all('span', class_='p-PTRank')
ranking_sections(d) == d.markers

\* mutant: the slice [:top_n] is lost
TruncateNone(ms, top_n) == ms

\* ranking_sections[:top_n], for top_n >= 0
Truncate(ms, top_n) == SubSeq(ms, 1, Min(Len(ms), top_n))

\* parent_tr.find('span', class_='p-PTRank'): the first marker, in document
\* order, that lies in the row
FirstMarkerIn(d, tr) ==
    LET idx == {k \in 1..Len(d.markers) : d.markers[k].tr = tr}
    IN d.markers[CHOOSE k \in idx : \A j \in idx : k <= j]

\* mutant: a present primary price is kept when the secondary one is absent
price_text_partial(row) ==
    LET price_sub_tag_text == IF Found(row.price_sub) THEN get_text(row.price_sub) ELSE <<>>
    IN IF Found(row.price)
       THEN get_text(row.price) \o price_sub_tag_text
       ELSE NoPrice

\* lines 97-101
price_text(row) ==
    LET price_sub_tag_text == IF Found(row.price_sub) THEN get_text(row.price_sub) ELSE <<>>
    IN IF Found(row.price) /\ Found(row.price_sub)
       THEN get_text(row.price) \o price_sub_tag_text
       ELSE NoPrice

\* lines 112-114
shop_url(row) ==
    IF Found(row.shop) /\ row.shop.has_href THEN row.shop.href ELSE NoURL

\* lines 93-129: the dictionary appended for one marker with an enclosing row
Entry(d, header_text, tr) ==
    LET row == d.rows[tr]
    IN [Header |-> header_text,
        Rank |-> get_text(FirstMarkerIn(d, tr)),
        Price |-> price_text(row),
        Shipping |-> IF Found(row.shipping) THEN get_text(row.shipping) ELSE NoShipping,
        Stock |-> IF Found(row.stock) THEN get_text(row.stock) ELSE NoStock,
        ShopName |-> IF Found(row.shop) THEN get_text(row.shop) ELSE NoShopName,
        ShopURL |-> shop_url(row),
        ShopArea |-> IF Found(row.area) THEN get_text(row.area) ELSE NoArea]

\* rank_section.find_parent('tr'); 0 stands for None
find_parent_tr(marker) == marker.tr

\* the for loop of lines 88-129 over the sections given
RECURSIVE Collect(_, _, _)
Collect(d, header_text, sections) ==
    IF sections = <<>> THEN <<>>
    ELSE LET parent_tr == find_parent_tr(Head(sections))
             rest == Collect(d, header_text, Tail(sections))
         IN IF parent_tr = 0 THEN rest
            ELSE <<Entry(d, header_text, parent_tr)>> \o rest

\* mutant: rows are resolved first and the result is cut to top_n afterwards
extract_rankings_cut_last(d, top_n) ==
    IF ranking_sections(d) = <<>> THEN <<>>
    ELSE LET all == Collect(d, get_header_text(d), ranking_sections(d))
         IN SubSeq(all, 1, Min(Len(all), top_n))

\* extract_rankings(soup, top_n)
extract_rankings(d, top_n) ==
    IF ranking_sections(d) = <<>> THEN <<>>
    ELSE Collect(d, get_header_text(d), Truncate(ranking_sections(d), top_n))

NRows == 2          \* <tr> elements per document in the extraction harness

\* a complete row whose stock text names the row
MarkerRow(r) ==
    Row(Tag(<<"p">>), Tag(<<"(", "t", ")">>), Tag(<<"f">>), Tag(<<ToString(r)>>),
        Anchor(<<"n">>, TRUE, <<"u">>), Tag(<<"a">>))

(***************************************************************************)
(* The pipeline: scrape_api -> scrape_urls -> fetch_html, save_html,       *)
(* extract_rankings, save_to_csv.                                          *)
(*                                                                         *)
(* Requests are indexed by their itemId; "" is a request without one.      *)
(* Requests for distinct itemIds interleave step by step (Flask serves     *)
(* each request on its own thread); requests for one itemId follow one     *)
(* another.                                                                *)
(***************************************************************************)
Items == {"", "J1", "J2"}
RealItems == Items \ {""}

\* mutant: the snapshot path does not depend on the itemId
output_html_shared(item_id) == <<"data/fetched_", "", ".html">>

\* app.py line 21: f'data/fetched_{item_id}.html'
output_html(item_id) == <<"data/fetched_", item_id, ".html">>

\* app.py line 22: f'data/top10_rankings_{item_id}.csv'
rankings_csv(item_id) == <<"data/top10_rankings_", item_id, ".csv">>

Paths == {output_html(i) : i \in RealItems} \cup {rankings_csv(i) : i \in RealItems}

\* file contents
NoFile == [kind |-> "absent"]
Truncated == [kind |-> "truncated"]   \* opened with 'w', the write did not complete

\* str(soup), written as utf-8
HtmlFile(d) == [kind |-> "html", encoding |-> "utf-8", body |-> d]

\* pd.DataFrame(data).to_csv(filepath, index=False, encoding='utf-8-sig')
Columns == <<"Header", "Rank", "Price", "Shipping", "Stock", "Shop Name", "Shop URL", "Shop Area">>
to_csv(data) ==
    [kind |-> "csv", encoding |-> "utf-8-sig", columns |-> Columns,
     rows |-> [k \in 1..Len(data) |->
                 <<data[k].Header, data[k].Rank, data[k].Price, data[k].Shipping,
                   data[k].Stock, data[k].ShopName, data[k].ShopURL, data[k].ShopArea>>]]

\* Python values handed between functions
Unset == [kind |-> "unset"]
Raised == [kind |-> "raised", exc |-> "OSError"]
List(v) == [kind |-> "list", value |-> v]

\* pages the site can serve
PageEmpty == Doc(Tag(<<"W">>), <<>>, <<>>)
PageOne == Doc(Tag(<<"W">>), <<[tr |-> 1, text |-> <<"1">>]>>, <<MarkerRow(1)>>)
PageOrphan == Doc(None, <<[tr |-> 0, text |-> <<"1">>]>>, <<>>)
Pages == {PageEmpty, PageOne, PageOrphan}

\* what requests.get can do: raise, or answer with a status and a body
NetOutcomes ==
    {[kind |-> "error", status |-> 0, body |-> None]}
    \cup {[kind |-> "http", status |-> st, body |-> d] : st \in {200, 404}, d \in Pages}

\* mutant: raise_for_status is not called
fetch_html_no_raise(net) ==
    IF net.kind = "error" THEN None
    ELSE net.body

\* fetch_html(target_url, headers), given what requests.get did
fetch_html(net) ==
    IF net.kind = "error" THEN None                \* RequestException
    ELSE IF net.status >= 400 THEN None            \* raise_for_status
    ELSE net.body                                  \* BeautifulSoup(response.text)

\* scrape_urls falls off its end after lines 146-151: it has no return statement
scrape_urls_return(rs) == None

\* app.py lines 25-31, and Flask's answer to an exception the handler lets through
scrape_api_response(r) ==
    IF r.kind = "raised" THEN [status |-> 500, key |-> "internal", body |-> None]
    ELSE IF r.kind = "None" THEN [status |-> 500, key |-> "error", body |-> None]
    ELSE IF r.value = <<>> THEN [status |-> 404, key |-> "message", body |-> None]
    ELSE [status |-> 200, key |-> "rankings", body |-> r]

FsOutcomes == {"ok", "makedirs_error", "open_error", "write_error"}

\* the file at a path after os.makedirs + open(path, 'w') + write, by outcome
Written(old, new, fs) ==
    IF fs = "ok" THEN new
    ELSE IF fs = "write_error" THEN Truncated
    ELSE old

\* data/ after os.makedirs(os.path.dirname(filepath), exist_ok=True)
MadeDir(old, fs) == IF fs = "makedirs_error" THEN old ELSE TRUE

PipeInit ==
    /\ pc = [i \in Items |-> "idle"]
    /\ requests = 0
    /\ soup = [i \in Items |-> Unset]
    /\ rankings = [i \in Items |-> Unset]
    /\ ret = [i \in Items |-> Unset]
    /\ response = [i \in Items |-> Unset]
    /\ files = [p \in Paths |-> NoFile]
    /\ dataDir = FALSE
    /\ before = [i \in Items |-> Unset]
    /\ log = [i \in Items |-> <<>>]

\* scrape_api, lines 17-24: a request arrives
Request(i) ==
    /\ pc[i] \in {"idle", "done"}
    /\ requests < MaxRequests
    /\ requests' = requests + 1
    /\ soup' = [soup EXCEPT ![i] = Unset]
    /\ rankings' = [rankings EXCEPT ![i] = Unset]
    /\ ret' = [ret EXCEPT ![i] = Unset]
    /\ log' = [log EXCEPT ![i] = <<>>]
    /\ IF i = ""
       THEN /\ response' = [response EXCEPT ![i] = [status |-> 400, key |-> "error", body |-> None]]
            /\ pc' = [pc EXCEPT ![i] = "done"]
            /\ UNCHANGED before
       ELSE /\ response' = [response EXCEPT ![i] = Unset]
            /\ pc' = [pc EXCEPT ![i] = "fetch"]
            /\ before' = [before EXCEPT ![i] = [html |-> files[output_html(i)],
                                                csv |-> files[rankings_csv(i)]]]
    /\ UNCHANGED <<files, dataDir>>
    /\ UNCHANGED harnessVars

\* scrape_urls, lines 139-141
Fetch(i) ==
    /\ pc[i] = "fetch"
    /\ \E net \in NetOutcomes :
         /\ soup' = [soup EXCEPT ![i] = fetch_html(net)]
         /\ log' = [log EXCEPT ![i] = Append(@, <<"fetch", net.kind, net.status>>)]
         /\ IF fetch_html(net) = None
            THEN /\ ret' = [ret EXCEPT ![i] = None]
                 /\ pc' = [pc EXCEPT ![i] = "returned"]
            ELSE /\ pc' = [pc EXCEPT ![i] = "save_html"]
                 /\ UNCHANGED ret
    /\ UNCHANGED <<requests, rankings, response, files, dataDir, before>>
    /\ UNCHANGED harnessVars

\* mutant: scrape_urls goes on to the extraction without saving the snapshot
SaveHtmlSkipped(i) ==
    /\ pc[i] = "save_html"
    /\ pc' = [pc EXCEPT ![i] = "extract"]
    /\ UNCHANGED <<requests, soup, rankings, ret, response, files, dataDir, before, log>>
    /\ UNCHANGED harnessVars

\* scrape_urls line 144: save_html(soup, output_html)
SaveHtml(i) ==
    /\ pc[i] = "save_html"
    /\ \E fs \in FsOutcomes :
         /\ files' = [files EXCEPT ![output_html(i)] = Written(@, HtmlFile(soup[i]), fs)]
         /\ dataDir' = MadeDir(dataDir, fs)
         /\ log' = [log EXCEPT ![i] = Append(@, <<"save_html", fs, 0>>)]
         /\ IF fs = "ok"
            THEN /\ pc' = [pc EXCEPT ![i] = "extract"]
                 /\ UNCHANGED ret
            ELSE /\ ret' = [ret EXCEPT ![i] = Raised]
                 /\ pc' = [pc EXCEPT ![i] = "returned"]
    /\ UNCHANGED <<requests, soup, rankings, response, before>>
    /\ UNCHANGED harnessVars

\* scrape_urls lines 147-151, up to the call of save_to_csv
Extract(i) ==
    /\ pc[i] = "extract"
    /\ LET rs == extract_rankings(soup[i], DefaultTopN)
       IN /\ rankings' = [rankings EXCEPT ![i] = List(rs)]
          /\ log' = [log EXCEPT ![i] = Append(@, <<"extract", "ok", Len(rs)>>)]
          /\ IF rs # <<>>
             THEN /\ pc' = [pc EXCEPT ![i] = "save_csv"]
                  /\ UNCHANGED ret
             ELSE /\ ret' = [ret EXCEPT ![i] = scrape_urls_return(rs)]
                  /\ pc' = [pc EXCEPT ![i] = "returned"]
    /\ UNCHANGED <<requests, soup, response, files, dataDir, before>>
    /\ UNCHANGED harnessVars

\* mutant: save_to_csv catches the error of its write and returns normally
SaveCsvSwallowed(i) ==
    /\ pc[i] = "save_csv"
    /\ \E fs \in FsOutcomes :
         /\ files' = [files EXCEPT ![rankings_csv(i)] =
                         Written(@, to_csv(rankings[i].value), fs)]
         /\ dataDir' = MadeDir(dataDir, fs)
         /\ log' = [log EXCEPT ![i] = Append(@, <<"save_csv", fs, 0>>)]
         /\ ret' = [ret EXCEPT ![i] = None]
         /\ pc' = [pc EXCEPT ![i] = "returned"]
    /\ UNCHANGED <<requests, soup, rankings, response, before>>
    /\ UNCHANGED harnessVars

\* scrape_urls line 149: save_to_csv(rankings, rankings_csv)
SaveCsv(i) ==
    /\ pc[i] = "save_csv"
    /\ \E fs \in FsOutcomes :
         /\ files' = [files EXCEPT ![rankings_csv(i)] =
                         Written(@, to_csv(rankings[i].value), fs)]
         /\ dataDir' = MadeDir(dataDir, fs)
         /\ log' = [log EXCEPT ![i] = Append(@, <<"save_csv", fs, 0>>)]
         /\ ret' = [ret EXCEPT ![i] = IF fs = "ok" THEN scrape_urls_return(rankings[i].value)
                                      ELSE Raised]
         /\ pc' = [pc EXCEPT ![i] = "returned"]
    /\ UNCHANGED <<requests, soup, rankings, response, before>>
    /\ UNCHANGED harnessVars

\* scrape_api, lines 24-31: the answer
Respond(i) ==
    /\ pc[i] = "returned"
    /\ response' = [response EXCEPT ![i] = scrape_api_response(ret[i])]
    /\ pc' = [pc EXCEPT ![i] = "done"]
    /\ UNCHANGED <<requests, soup, rankings, ret, files, dataDir, before, log>>
    /\ UNCHANGED harnessVars

HarnessIdle ==
    /\ xdoc = None
    /\ xtopn = DefaultTopN
    /\ xout = <<>>
    /\ xpc = "idle"

Init == PipeInit /\ HarnessIdle

Next ==
    \E i \in Items :
        \/ Request(i)
        \/ Fetch(i)
        \/ SaveHtml(i)
        \/ Extract(i)
        \/ SaveCsv(i)
        \/ Respond(i)

Spec == Init /\ [][Next]_vars

(***************************************************************************)
(* Extraction harness: extract_rankings applied to a bounded family of     *)
(* documents.                                                              *)
(***************************************************************************)

MarkerTexts == {<<"1">>, <<" ", "2">>}
MarkerSet == [tr : 0..NRows, text : MarkerTexts]

MarkerSeqs == UNION {[1..n -> MarkerSet] : n \in 0..MaxMarkers}

\* documents that vary in their markers: how many, in which row, which orphaned
MarkerDocs ==
    {Doc(Tag(<<"W">>), ms, [r \in 1..NRows |-> MarkerRow(r)]) : ms \in MarkerSeqs}

\* what a lookup of one class in a row can find
Lookups(texts) == {None} \cup {Tag(t) : t \in texts}

AnchorLookups ==
    {None} \cup {Anchor(t, FALSE, <<>>) : t \in {<<" ">>, <<"n", " ">>}}
           \cup {Anchor(t, TRUE, h) : t \in {<<" ">>, <<"n", " ">>}, h \in {<<>>, <<"u">>}}

FieldRows ==
    {Row(p, s, sh, st, a, ar) :
        p \in Lookups({<<>>, <<" ">>, <<" ", "p">>}),
        s \in Lookups({<<>>, <<" ">>, <<"s", " ">>}),
        sh \in Lookups({<<" ">>, <<"f">>}),
        st \in Lookups({<<" ">>, <<" ", "i", " ">>}),
        a \in AnchorLookups,
        ar \in Lookups({<<" ">>, <<"T">>})}

\* documents with one marker in one row, varying in what each lookup finds
FieldDocs ==
    {Doc(h, <<[tr |-> 1, text |-> m]>>, [r \in 1..1 |-> row]) :
        h \in Lookups({<<" ">>, <<"W", " ", "X">>}),
        m \in {<<"1">>, <<" ">>},
        row \in FieldRows}

InitExtract ==
    /\ PipeInit
    /\ xpc = "input"
    /\ xout = <<>>
    /\ \/ xdoc \in MarkerDocs /\ xtopn \in 0..MaxTopN
       \/ xdoc \in FieldDocs /\ xtopn = DefaultTopN

\* rankings = extract_rankings(soup, top_n)
ExtractStep ==
    /\ xpc = "input"
    /\ xout' = extract_rankings(xdoc, xtopn)
    /\ xpc' = "done"
    /\ UNCHANGED <<xdoc, xtopn>>
    /\ UNCHANGED pipeVars

NextExtract == ExtractStep

SpecExtract == InitExtract /\ [][NextExtract]_vars

(***************************************************************************)
(* Reading the log of a request                                            *)
(***************************************************************************)
Finished(i) == pc[i] \in {"returned", "done"}

\* requests.get raised, or answered with a non-success status
FetchFailed(i) ==
    /\ log[i] # <<>>
    /\ log[i][1][1] = "fetch"
    /\ (log[i][1][2] = "error" \/ log[i][1][3] # 200)

FetchedOk(i) == log[i] # <<>> /\ log[i][1] = <<"fetch", "http", 200>>

Events(i, what) == {k \in 1..Len(log[i]) : log[i][k][1] = what}

WriteFailed(i) ==
    \E k \in 1..Len(log[i]) : log[i][k][1] \in {"save_html", "save_csv"} /\ log[i][k][2] # "ok"

\* the outcome log[i] records for one write, "ok" when it was not reached
FsOf(i, what) ==
    IF Events(i, what) = {} THEN "ok"
    ELSE log[i][CHOOSE k \in Events(i, what) : TRUE][2]

\* scrape_urls run from start to end on its own: the two files it leaves
\* behind and what its caller gets, given the files b it found, what the
\* network did and how each write went
RunAlone(b, net, fsHtml, fsCsv) ==
    LET s == fetch_html(net)
    IN IF s = None THEN [html |-> b.html, csv |-> b.csv, ret |-> None]
       ELSE IF fsHtml # "ok"
       THEN [html |-> Written(b.html, HtmlFile(s), fsHtml), csv |-> b.csv, ret |-> Raised]
       ELSE LET rs == extract_rankings(s, DefaultTopN)
            IN IF rs = <<>>
               THEN [html |-> HtmlFile(s), csv |-> b.csv, ret |-> scrape_urls_return(rs)]
               ELSE [html |-> HtmlFile(s),
                     csv |-> Written(b.csv, to_csv(rs), fsCsv),
                     ret |-> IF fsCsv = "ok" THEN scrape_urls_return(rs) ELSE Raised]

\* what the network did in request i, read back from its log and its soup
NetOf(i) == [kind |-> log[i][1][2], status |-> log[i][1][3], body |-> soup[i]]

(***************************************************************************)
(* Reading the result of the extraction harness                            *)
(***************************************************************************)
CountMarkers == Len(xdoc.markers)

\* the markers among the first top_n that have an enclosing <tr>
Kept == {k \in 1..Min(CountMarkers, xtopn) : xdoc.markers[k].tr # 0}

\* the j-th of them in document order
NthKept(j) == CHOOSE k \in Kept : Cardinality({m \in Kept : m <= k}) = j

\* the stock text the row tr resolves to
StockOf(tr) ==
    IF Found(xdoc.rows[tr].stock) THEN strip(xdoc.rows[tr].stock.text) ELSE NoStock

(***************************************************************************)
(* Claims                                                                  *)
(***************************************************************************)

\* C1: after a request whose writes did not fail, scrape_urls has handed
\* scrape_api None when the fetch failed, the empty list when the fetch
\* succeeded and nothing was extracted, and the extracted list otherwise; and
\* scrape_api has answered with the error, the message and the rankings
\* respectively.
C1_ThreeOutcomes ==
    \A i \in RealItems :
        (pc[i] = "done" /\ ~WriteFailed(i)) =>
            /\ FetchFailed(i) =>
                   (ret[i] = None /\ response[i].key = "error")
            /\ (FetchedOk(i) /\ rankings[i] = List(<<>>)) =>
                   (ret[i] = List(<<>>) /\ response[i].key = "message")
            /\ (FetchedOk(i) /\ rankings[i] # List(<<>>)) =>
                   (ret[i] = rankings[i] /\ response[i].key = "rankings"
                                         /\ response[i].body = rankings[i])

\* C2: a request whose fetch failed (transport error or non-success status)
\* has ended at once, handing None to its caller, and has left both of its
\* files as they were when it began.
C2_FetchFailureWritesNothing ==
    \A i \in RealItems :
        FetchFailed(i) =>
            /\ Finished(i)
            /\ Len(log[i]) = 1
            /\ ret[i] = None
            /\ files[output_html(i)] = before[i].html
            /\ files[rankings_csv(i)] = before[i].csv

C2_Witness ==
    \E i \in RealItems :
        /\ pc[i] = "done"
        /\ log[i] = <<<<"fetch", "http", 404>>>>
        /\ before[i].html.kind = "html"
        /\ before[i].csv.kind = "csv"

\* C3: in a request whose fetch succeeded, saving the snapshot is the step
\* right after the fetch; the extraction runs only after the snapshot was
\* written, whatever it then yields; once it has run the snapshot file holds
\* the fetched document; and the tabular file is never written before the
\* snapshot.
C3_SnapshotBeforeExtraction ==
    \A i \in RealItems :
        /\ (FetchedOk(i) /\ pc[i] # "save_html") =>
               (Len(log[i]) >= 2 /\ log[i][2][1] = "save_html")
        /\ \A k \in 1..Len(log[i]) :
               /\ log[i][k][1] = "extract" =>
                      \E j \in 1..(k - 1) : log[i][j] = <<"save_html", "ok", 0>>
               /\ log[i][k][1] = "save_csv" =>
                      \E j \in 1..(k - 1) : log[i][j] = <<"save_html", "ok", 0>>
        /\ (pc[i] \in {"extract", "save_csv"} \/ Events(i, "extract") # {}) =>
               files[output_html(i)] = HtmlFile(soup[i])

C3_Witness ==
    \E i \in RealItems :
        /\ pc[i] = "done"
        /\ rankings[i] = List(<<>>)
        /\ soup[i] = PageOrphan
        /\ files[output_html(i)] = HtmlFile(PageOrphan)
        /\ before[i].html = HtmlFile(PageOne)

\* C4: when the latest request for an item has been answered, its fetch
\* succeeded, the page held no marker and no write failed, scrape_urls
\* returned the empty list, the snapshot file holds the page and there is no
\* tabular file for the item.
C4_EmptyPage ==
    \A i \in RealItems :
        (pc[i] = "done" /\ FetchedOk(i) /\ ~WriteFailed(i) /\ soup[i].markers = <<>>) =>
            /\ ret[i] = List(<<>>)
            /\ files[output_html(i)] = HtmlFile(soup[i])
            /\ files[rankings_csv(i)] = NoFile

\* C8: a write that fails is the last thing its request does (it is not
\* tried again and nothing follows it), each file is written at most once
\* per request, and the failure reaches the caller: scrape_urls raises and
\* the request is answered with an internal error.
C8_WriteFailurePropagates ==
    \A i \in RealItems :
        /\ Cardinality(Events(i, "save_html")) <= 1
        /\ Cardinality(Events(i, "save_csv")) <= 1
        /\ \A k \in 1..Len(log[i]) :
               (log[i][k][1] \in {"save_html", "save_csv"} /\ log[i][k][2] # "ok") =>
                   /\ k = Len(log[i])
                   /\ Finished(i)
                   /\ ret[i] = Raised
                   /\ pc[i] = "done" => response[i] = [status |-> 500, key |-> "internal", body |-> None]

C8_Witness ==
    \E i \in RealItems :
        /\ pc[i] = "done"
        /\ Len(log[i]) = 4
        /\ log[i][4] = <<"save_csv", "write_error", 0>>
        /\ files[rankings_csv(i)] = Truncated
        /\ response[i].status = 500

\* C9: whatever requests for other items did in the meantime, a finished
\* request leaves its two files, and hands its caller, exactly what
\* scrape_urls run on its own would have.
C9_NoInterference ==
    \A i \in RealItems :
        Finished(i) =>
            LET alone == RunAlone(before[i], NetOf(i), FsOf(i, "save_html"), FsOf(i, "save_csv"))
            IN /\ files[output_html(i)] = alone.html
               /\ files[rankings_csv(i)] = alone.csv
               /\ ret[i] = alone.ret

C9_Witness ==
    /\ pc["J1"] = "returned"
    /\ soup["J1"] = PageOne
    /\ files[rankings_csv("J1")] = to_csv(extract_rankings(PageOne, DefaultTopN))
    /\ pc["J2"] = "extract"
    /\ soup["J2"] = PageEmpty
    /\ files[output_html("J2")] = HtmlFile(PageEmpty)
    /\ files[output_html("J1")] = HtmlFile(PageOne)
    /\ files[rankings_csv("J2")] = NoFile

\* C5 as stated: a document with K >= 1 markers yields exactly min(K, N)
\* entries, the i-th built from the row of the i-th marker.
C5_ExactlyMinKN ==
    (xpc = "done" /\ CountMarkers >= 1) =>
        /\ Len(xout) = Min(CountMarkers, xtopn)
        /\ \A j \in 1..Len(xout) :
               /\ xdoc.markers[j].tr # 0
               /\ xout[j].Stock = StockOf(xdoc.markers[j].tr)

\* C5 amended: a document with K >= 1 markers yields at most min(K, N)
\* entries, and exactly min(K, N) when each of the first min(K, N) markers
\* has an enclosing <tr>; the i-th entry is then built from the row of the
\* i-th marker.
C5_MinKNWhenRowsPresent ==
    (xpc = "done" /\ CountMarkers >= 1) =>
        /\ Len(xout) <= Min(CountMarkers, xtopn)
        /\ (\A k \in 1..Min(CountMarkers, xtopn) : xdoc.markers[k].tr # 0) =>
               /\ Len(xout) = Min(CountMarkers, xtopn)
               /\ \A j \in 1..Len(xout) :
                      xout[j].Stock = StockOf(xdoc.markers[j].tr)

C5_Witness ==
    /\ xpc = "done"
    /\ CountMarkers = 3
    /\ xtopn = 2
    /\ xdoc.markers[1].tr = 2
    /\ xdoc.markers[2].tr = 1
    /\ Len(xout) = 2
    /\ xout[1].Stock = <<"2">>
    /\ xout[2].Stock = <<"1">>

\* C6: every field of every entry is a non-empty text.
C6_FieldsNonEmpty ==
    xpc = "done" =>
        \A j \in 1..Len(xout) :
            /\ xout[j].Header # <<>>
            /\ xout[j].Rank # <<>>
            /\ xout[j].Price # <<>>
            /\ xout[j].Shipping # <<>>
            /\ xout[j].Stock # <<>>
            /\ xout[j].ShopName # <<>>
            /\ xout[j].ShopURL # <<>>
            /\ xout[j].ShopArea # <<>>

\* C7: the Price of an entry is the trimmed primary price text followed by
\* the trimmed secondary price text when its row holds both elements, and
\* the price sentinel when either is missing.
C7_PriceBothOrSentinel ==
    xpc = "done" =>
        \A j \in 1..Len(xout) :
            LET row == xdoc.rows[xdoc.markers[NthKept(j)].tr]
            IN IF Found(row.price) /\ Found(row.price_sub)
               THEN xout[j].Price = strip(row.price.text) \o strip(row.price_sub.text)
               ELSE xout[j].Price = NoPrice

C7_Witness ==
    /\ xpc = "done"
    /\ Len(xout) = 1
    /\ Found(xdoc.rows[1].price)
    /\ strip(xdoc.rows[1].price.text) = <<"p">>
    /\ ~Found(xdoc.rows[1].price_sub)
    /\ xout[1].Price = NoPrice

\* C10: the result holds one entry for each marker among the first top_n
\* that has an enclosing <tr>, in document order, and nothing else: a marker
\* without a row adds no entry, and no marker beyond the first top_n takes
\* its place.
C10_TruncateThenSkip ==
    xpc = "done" =>
        /\ Len(xout) = Cardinality(Kept)
        /\ \A j \in 1..Len(xout) :
               xout[j].Stock = StockOf(xdoc.markers[NthKept(j)].tr)

C10_Witness ==
    /\ xpc = "done"
    /\ CountMarkers = 3
    /\ xtopn = 2
    /\ xdoc.markers[1].tr = 0
    /\ xdoc.markers[2].tr = 1
    /\ xdoc.markers[3].tr = 2
    /\ Len(xout) = 1
    /\ xout[1].Stock = <<"1">>

====
